---- MODULE Spec2Model ----
(***************************************************************************)
(* Takkerus: the Tak rules engine.  State (src/src/tak/state.rs) owns the  *)
(* board, both reserves, the ply counter and the embedded StateAnalysis;   *)
(* execute_ply applies one Ply to a State and returns a new State or a     *)
(* GameError; check_win evaluates the win condition.  Ply::from_ptn        *)
(* (src/src/tak/ply.rs) reads a Ply off a notation token.                  *)
(*                                                                         *)
(* tak::state_analysis (StateAnalysis, Bitmap, BOARD, EDGE) and            *)
(* Direction::to_offset are not among the source files; they are modelled  *)
(* from the design document (sections 4.1, 4.2) and marked so below.       *)
(***************************************************************************)
EXTENDS Integers, Sequences, FiniteSets, TLC

VARIABLES p1, p2, board, ply_count, analysis, source, ply, result,
          ptn, mover, parsed,
          position, size, received, to_engine, plies, tei

vars == <<p1, p2, board, ply_count, analysis, source, ply, result,
          ptn, mover, parsed,
          position, size, received, to_engine, plies, tei>>

\* ------------------------------------------------------------------ bounds

\* Successful plies explored after the opening of a specification.
MaxPly == 1

\* Largest single entry of a drops list that is tried.
MaxDrop == 2

\* Largest coordinate of the corner of a larger board that plies are aimed at.
MaxCoord == 1

\* Most characters after the direction symbol of a notation token.
MaxTail == 2

\* Most commands the TEI game loop receives.
MaxCommands == 3

\* Most tokens after the word `position` in the line of a Position command.
MaxTokens == 5

\* ------------------------------------------------------- pieces and colors

White == "White"
Black == "Black"
Color == {White, Black}

Flatstone(color) == [kind |-> "Flatstone", color |-> color]
StandingStone(color) == [kind |-> "StandingStone", color |-> color]
Capstone(color) == [kind |-> "Capstone", color |-> color]

Piece == {Flatstone(c) : c \in Color} \cup {StandingStone(c) : c \in Color}
            \cup {Capstone(c) : c \in Color}

get_color(piece) == piece.color

North == "North"
East == "East"
South == "South"
West == "West"
Direction == {North, East, South, West}

\* Direction::to_offset (tak module, not among the sources): the step of one
\* cell, x the column and y the row, north towards higher rows.
to_offset(direction) ==
    CASE direction = North -> <<0, 1>>
      [] direction = East -> <<1, 0>>
      [] direction = South -> <<0, -1>>
      [] direction = West -> <<-1, 0>>

PlacePly(x, y, piece) == [type |-> "Place", x |-> x, y |-> y, piece |-> piece]
SlidePly(x, y, direction, drops) ==
    [type |-> "Slide", x |-> x, y |-> y, direction |-> direction, drops |-> drops]

RECURSIVE SumSeq(_)
SumSeq(drops) == IF drops = <<>> THEN 0 ELSE Head(drops) + SumSeq(Tail(drops))

\* -------------------------------------------------------- Ply::from_ptn
\* A notation token is the sequence of the code points of its characters.

Chr(s) ==
    CASE s = "S" -> 83 [] s = "C" -> 67 [] s = "F" -> 70 [] s = "X" -> 88
      [] s = "A" -> 65 [] s = "a" -> 97 [] s = "h" -> 104 [] s = "x" -> 120
      [] s = "0" -> 48 [] s = "1" -> 49 [] s = "2" -> 50 [] s = "9" -> 57
      [] s = "+" -> 43 [] s = ">" -> 62 [] s = "-" -> 45 [] s = "<" -> 60
      [] s = "*" -> 42
      [] s = "b" -> 98 [] s = "i" -> 105 [] s = "n" -> 110 [] s = "o" -> 111
      [] s = "p" -> 112 [] s = "s" -> 115 [] s = "t" -> 116
      [] s = "e-acute" -> 233
      [] s = "a-macron" -> 257

\* char::is_digit(10)
is_digit(c) == c \in 48 .. 57

\* c.is_alphabetic() && c.is_lowercase(): the letters a to z and, of the
\* lowercase letters beyond ASCII, U+00E9 and U+0101.
is_lowercase_letter(c) == c \in (97 .. 122) \cup {233, 257}

\* `c as u8`
as_u8(c) == c % 256

\* from_ptn hands back no Ply (None), a Ply, or ends in a panic.
NoPly == [type |-> "None"]
PanicPly == [type |-> "Panic"]

NoPiece == [kind |-> "None"]
NoGrab == -1
NoDirection == "None"

\* The match on the first character.
PieceLetter(c, color) ==
    IF c = Chr("S") THEN StandingStone(color)
    ELSE IF c = Chr("C") THEN Capstone(color)
    ELSE IF c = Chr("F") THEN Flatstone(color)
    ELSE NoPiece

\* `(c as u8 - 97) as usize` and `(c as u8 - 49) as usize`: a u8 subtraction,
\* which wraps when built without overflow checks.
ColumnOf(c) == (as_u8(c) + 256 - 97) % 256
RowOf(c) == (as_u8(c) + 256 - 49) % 256

\* As DirectionSymbol, with north and south the other way round.
DirectionSymbol_Swapped(c) ==
    IF c = Chr("+") THEN South
    ELSE IF c = Chr(">") THEN East
    ELSE IF c = Chr("-") THEN North
    ELSE IF c = Chr("<") THEN West
    ELSE NoDirection

\* The match on the character after the coordinate.
DirectionSymbol(c) ==
    IF c = Chr("+") THEN North
    ELSE IF c = Chr(">") THEN East
    ELSE IF c = Chr("-") THEN South
    ELSE IF c = Chr("<") THEN West
    ELSE NoDirection

\* As SlideDrops, with the grab count not asked for.
SlideDrops_GrabOptional(grab, drops) ==
    IF drops = <<>> THEN (IF grab # NoGrab THEN <<grab>> ELSE <<1>>)
    ELSE IF grab # NoGrab /\ grab # SumSeq(drops) THEN <<>>
    ELSE drops

\* The drops of the Slide handed back, the empty list standing for a token
\* turned down.
SlideDrops(grab, drops) ==
    IF drops = <<>> THEN (IF grab # NoGrab THEN <<grab>> ELSE <<1>>)
    ELSE IF grab = NoGrab THEN <<>>
    ELSE IF grab # SumSeq(drops) THEN <<>>
    ELSE drops

\* Ply::from_ptn, as built with or without overflow checks.
from_ptn(chars, color, overflow_checks) ==
    LET n == Len(chars)
        new_piece == PieceLetter(chars[1], color)
        gi == IF new_piece = NoPiece THEN 1 ELSE 2
        grab == IF is_digit(chars[gi]) THEN as_u8(chars[gi]) - 48 ELSE NoGrab
        xi == IF grab = NoGrab THEN gi ELSE gi + 1
        yi == xi + 1
        di == yi + 1
        direction == IF di > n THEN NoDirection ELSE DirectionSymbol(chars[di])
        drops == [k \in 1 .. n - di |-> as_u8(chars[di + k]) - 48]
        placed == IF di > n /\ new_piece = NoPiece THEN Flatstone(color)
                  ELSE new_piece
    IN IF n = 0 THEN NoPly
       ELSE IF gi > n THEN NoPly
       ELSE IF xi > n THEN NoPly
       ELSE IF ~is_lowercase_letter(chars[xi]) THEN NoPly
       ELSE IF overflow_checks /\ as_u8(chars[xi]) < 97 THEN PanicPly
       ELSE IF yi > n THEN NoPly
       ELSE IF ~is_digit(chars[yi]) THEN NoPly
       ELSE IF overflow_checks /\ as_u8(chars[yi]) < 49 THEN PanicPly
       ELSE IF di <= n /\ direction = NoDirection THEN NoPly
       ELSE IF \E k \in di + 1 .. n : ~is_digit(chars[k]) THEN NoPly
       ELSE IF placed # NoPiece
       THEN (IF grab # NoGrab \/ direction # NoDirection \/ drops # <<>>
             THEN NoPly
             ELSE PlacePly(ColumnOf(chars[xi]), RowOf(chars[yi]), placed))
       ELSE IF direction # NoDirection
       THEN (IF SlideDrops(grab, drops) = <<>> THEN NoPly
             ELSE SlidePly(ColumnOf(chars[xi]), RowOf(chars[yi]), direction,
                           SlideDrops(grab, drops)))
       ELSE NoPly

\* --------------------------------------------------------------- bitmaps
\* A Bitmap is modelled as the set of cells <<x, y>> whose bit is set.

\* BOARD[board_size]: every cell of the board.
BOARD(board_size) == (0 .. board_size - 1) \X (0 .. board_size - 1)

\* EDGE[board_size][direction]: the cells touching that boundary.
EDGE(board_size, direction) ==
    CASE direction = North -> {c \in BOARD(board_size) : c[2] = board_size - 1}
      [] direction = South -> {c \in BOARD(board_size) : c[2] = 0}
      [] direction = East -> {c \in BOARD(board_size) : c[1] = board_size - 1}
      [] direction = West -> {c \in BOARD(board_size) : c[1] = 0}

Adjacent(c, d) ==
    \/ c[1] = d[1] /\ (c[2] = d[2] + 1 \/ d[2] = c[2] + 1)
    \/ c[2] = d[2] /\ (c[1] = d[1] + 1 \/ d[1] = c[1] + 1)

RECURSIVE Flood(_, _)
Flood(group, cells) ==
    LET more == {c \in cells \ group : \E g \in group : Adjacent(c, g)}
    IN IF more = {} THEN group ELSE Flood(group \cup more, cells)

\* Bitmap::get_groups: the maximal edge-adjacency-connected components.
RECURSIVE get_groups(_)
get_groups(cells) ==
    IF cells = {} THEN {}
    ELSE LET c == CHOOSE c \in cells : TRUE
             g == Flood({c}, cells)
         IN {g} \cup get_groups(cells \ g)

\* ---------------------------------------------------------- StateAnalysis
\* p1_pieces / p2_pieces: the cells whose top piece is that color's (a
\* standing stone marks its cell occupied here and road-ineligible in
\* standing_stones); the flatstone counts count top-of-stack flatstones.

NewAnalysis(board_size) ==
    [board_size |-> board_size,
     p1_pieces |-> {}, p2_pieces |-> {},
     standing_stones |-> {},
     p1_flatstone_count |-> 0, p2_flatstone_count |-> 0,
     p1_road_groups |-> {}, p2_road_groups |-> {}]

SetPiece(a, color, x, y) ==
    IF color = White THEN [a EXCEPT !.p1_pieces = @ \cup {<<x, y>>}]
    ELSE [a EXCEPT !.p2_pieces = @ \cup {<<x, y>>}]

ClearPiece(a, color, x, y) ==
    IF color = White THEN [a EXCEPT !.p1_pieces = @ \ {<<x, y>>}]
    ELSE [a EXCEPT !.p2_pieces = @ \ {<<x, y>>}]

CountFlat(a, color, delta) ==
    IF color = White THEN [a EXCEPT !.p1_flatstone_count = @ + delta]
    ELSE [a EXCEPT !.p2_flatstone_count = @ + delta]

add_flatstone(a, color, x, y, depth) ==
    CountFlat(SetPiece(a, color, x, y), color, 1)

remove_flatstone(a, color, x, y, depth) ==
    CountFlat(ClearPiece(a, color, x, y), color, -1)

add_blocking_stone(a, piece, x, y) ==
    IF piece.kind = "StandingStone"
    THEN [SetPiece(a, piece.color, x, y) EXCEPT !.standing_stones = @ \cup {<<x, y>>}]
    ELSE SetPiece(a, piece.color, x, y)

remove_blocking_stone(a, piece, x, y) ==
    IF piece.kind = "StandingStone"
    THEN [ClearPiece(a, piece.color, x, y) EXCEPT !.standing_stones = @ \ {<<x, y>>}]
    ELSE ClearPiece(a, piece.color, x, y)

reveal_flatstone(a, color, x, y) ==
    CountFlat(SetPiece(a, color, x, y), color, 1)

cover_flatstone(a, color, x, y) ==
    CountFlat(ClearPiece(a, color, x, y), color, -1)

calculate_road_groups(a) ==
    [a EXCEPT !.p1_road_groups = get_groups(a.p1_pieces \ a.standing_stones),
              !.p2_road_groups = get_groups(a.p2_pieces \ a.standing_stones)]

\* ------------------------------------------------------------------ State

Seat(color, flatstone_count, capstone_count) ==
    [color |-> color, flatstone_count |-> flatstone_count,
     capstone_count |-> capstone_count]

BoardSizes == {3, 4, 5, 6, 7, 8}

StartFlatstones(board_size) ==
    CASE board_size = 3 -> 10
      [] board_size = 4 -> 15
      [] board_size = 5 -> 21
      [] board_size = 6 -> 30
      [] board_size = 7 -> 40
      [] board_size = 8 -> 50

StartCapstones(board_size) ==
    CASE board_size = 3 -> 0
      [] board_size = 4 -> 0
      [] board_size = 5 -> 1
      [] board_size = 6 -> 1
      [] board_size = 7 -> 1
      [] board_size = 8 -> 2

\* State::new
NewState(board_size) ==
    [p1 |-> Seat(White, StartFlatstones(board_size), StartCapstones(board_size)),
     p2 |-> Seat(Black, StartFlatstones(board_size), StartCapstones(board_size)),
     board |-> [x \in 0 .. board_size - 1 |-> [y \in 0 .. board_size - 1 |-> <<>>]],
     ply_count |-> 0,
     analysis |-> NewAnalysis(board_size)]

\* self.board.len()
BoardSize(s) == Cardinality(DOMAIN s.board)

Last(stack) == stack[Len(stack)]
Front(stack) == SubSeq(stack, 1, Len(stack) - 1)

\* What a call hands back: the status (Ok, a GameError, or Panic for a
\* program-terminating fault), the working copy `next` as it stood when the
\* call returned, and the State the call was made on as it stands afterwards.
Returned(status, next, after) == [status |-> status, next |-> next, self |-> after]

\* As SelfAfter, had next been the State itself and not a clone of it.
SelfAfter_Aliased(self, next) == next

\* `let mut next = self.clone()`: next is a value of its own, so the State the
\* call was made on is, after every write to next, what it was before.
SelfAfter(self, next) == self

\* As ReserveCount, reading the other color's seat.
ReserveCount_Swapped(next, piece) ==
    IF piece.kind \in {"Flatstone", "StandingStone"}
    THEN (IF piece.color = White THEN next.p2.flatstone_count
          ELSE next.p1.flatstone_count)
    ELSE (IF piece.color = White THEN next.p2.capstone_count
          ELSE next.p1.capstone_count)

\* The reserve a Place draws on: standing stones come out of the flatstones.
ReserveCount(next, piece) ==
    IF piece.kind \in {"Flatstone", "StandingStone"}
    THEN (IF piece.color = White THEN next.p1.flatstone_count
          ELSE next.p2.flatstone_count)
    ELSE (IF piece.color = White THEN next.p1.capstone_count
          ELSE next.p2.capstone_count)

\* As DecrementReserve, with a standing stone taken from the capstones.
DecrementReserve_ByKind(next, piece) ==
    IF piece.kind = "Flatstone"
    THEN (IF piece.color = White
          THEN [next EXCEPT !.p1.flatstone_count = @ - 1]
          ELSE [next EXCEPT !.p2.flatstone_count = @ - 1])
    ELSE IF piece.kind = "Capstone"
    THEN (IF piece.color = White
          THEN [next EXCEPT !.p1.capstone_count = @ - 1]
          ELSE [next EXCEPT !.p2.capstone_count = @ - 1])
    ELSE next

\* As DecrementReserve, taking the piece from the seat of the other color.
DecrementReserve_OtherSeat(next, piece) ==
    IF piece.kind \in {"Flatstone", "StandingStone"}
    THEN (IF piece.color = White
          THEN [next EXCEPT !.p2.flatstone_count = @ - 1]
          ELSE [next EXCEPT !.p1.flatstone_count = @ - 1])
    ELSE (IF piece.color = White
          THEN [next EXCEPT !.p2.capstone_count = @ - 1]
          ELSE [next EXCEPT !.p1.capstone_count = @ - 1])

\* `*count -= 1`
DecrementReserve(next, piece) ==
    IF piece.kind \in {"Flatstone", "StandingStone"}
    THEN (IF piece.color = White
          THEN [next EXCEPT !.p1.flatstone_count = @ - 1]
          ELSE [next EXCEPT !.p2.flatstone_count = @ - 1])
    ELSE (IF piece.color = White
          THEN [next EXCEPT !.p1.capstone_count = @ - 1]
          ELSE [next EXCEPT !.p2.capstone_count = @ - 1])

\* As PlaceRecalculates, recalculating for the blocking stones only.
PlaceRecalculates_Blocking(piece) == piece.kind \in {"StandingStone", "Capstone"}

\* Which placements recalculate the road groups.
PlaceRecalculates(piece) == piece.kind \in {"Flatstone", "Capstone"}

\* The push of a placed piece and its bookkeeping.
PlacePiece(next, x, y, piece) ==
    LET pushed == [next EXCEPT !.board[x][y] = Append(@, piece)]
        marked ==
            IF piece.kind = "Flatstone"
            THEN add_flatstone(pushed.analysis, piece.color, x, y,
                               Len(pushed.board[x][y]) - 1)
            ELSE add_blocking_stone(pushed.analysis, piece, x, y)
    IN [pushed EXCEPT !.analysis =
            IF PlaceRecalculates(piece) THEN calculate_road_groups(marked)
            ELSE marked]

\* As ExecutePlace, with the reserve looked at before the cell.
ExecutePlace_ReserveFirst(self, next, x, y, piece) ==
    IF ReserveCount(next, piece) <= 0
    THEN Returned("InsufficientPieces", next, SelfAfter(self, next))
    ELSE IF next.board[x][y] # <<>>
         THEN Returned("IllegalPlacement", next, SelfAfter(self, next))
         ELSE LET done == PlacePiece(DecrementReserve(next, piece), x, y, piece)
              IN Returned("Ok", done, SelfAfter(self, done))

\* As ExecutePlace, without the look at the cell.
ExecutePlace_Stacking(self, next, x, y, piece) ==
    IF ReserveCount(next, piece) > 0
    THEN LET done == PlacePiece(DecrementReserve(next, piece), x, y, piece)
         IN Returned("Ok", done, SelfAfter(self, done))
    ELSE Returned("InsufficientPieces", next, SelfAfter(self, next))

\* The Ply::Place arm of execute_ply.
ExecutePlace(self, next, x, y, piece) ==
    IF next.board[x][y] # <<>>
    THEN Returned("IllegalPlacement", next, SelfAfter(self, next))
    ELSE IF ReserveCount(next, piece) > 0
         THEN LET done == PlacePiece(DecrementReserve(next, piece), x, y, piece)
              IN Returned("Ok", done, SelfAfter(self, done))
         ELSE Returned("InsufficientPieces", next, SelfAfter(self, next))

\* As SlideRefused, without the look at the source cell.
SlideRefused_SizeOnly(next, x, y, grab) == grab > BoardSize(next)

\* The guard of a Slide: what makes it an IllegalSlide before anything moves.
SlideRefused(next, x, y, grab) ==
    grab > BoardSize(next) \/ next.board[x][y] = <<>>

\* One turn of the pick-up loop: pop the top piece of the source cell, undo
\* its bookkeeping and reveal the piece below.  pop().unwrap() on an empty
\* stack is a panic.
RECURSIVE PopLoop(_, _, _, _, _)
PopLoop(next, x, y, n, stack) ==
    IF n = 0 THEN [panic |-> FALSE, next |-> next, stack |-> stack]
    ELSE IF next.board[x][y] = <<>>
    THEN [panic |-> TRUE, next |-> next, stack |-> stack]
    ELSE LET piece == Last(next.board[x][y])
             popped == [next EXCEPT !.board[x][y] = Front(@)]
             removed ==
                 IF piece.kind = "Flatstone"
                 THEN remove_flatstone(popped.analysis, piece.color, x, y,
                                       Len(popped.board[x][y]))
                 ELSE remove_blocking_stone(popped.analysis, piece, x, y)
             revealed ==
                 IF popped.board[x][y] # <<>>
                 THEN reveal_flatstone(removed,
                                       get_color(Last(popped.board[x][y])), x, y)
                 ELSE removed
         IN PopLoop([popped EXCEPT !.analysis = revealed], x, y, n - 1,
                    Append(stack, piece))

\* As CanFlatten, without the count of the carried pieces.
CanFlatten_AnyCapstone(stack) == stack # <<>> /\ stack[1].kind = "Capstone"

\* Whether the carried pieces may flatten a standing stone.
CanFlatten(stack) == Len(stack) = 1 /\ stack[1].kind = "Capstone"

\* The look at a non-empty target cell before anything is dropped on it.
CheckTarget(next, stack, nx, ny) ==
    IF next.board[nx][ny] = <<>> THEN [status |-> "Ok", next |-> next]
    ELSE LET target_top == Last(next.board[nx][ny])
         IN CASE target_top.kind = "Capstone" ->
                    [status |-> "IllegalSlide", next |-> next]
              [] target_top.kind = "StandingStone" ->
                    IF CanFlatten(stack)
                    THEN LET color == target_top.color
                             flat == [next EXCEPT !.board[nx][ny] =
                                         [@ EXCEPT ![Len(@)] = Flatstone(color)]]
                             a1 == remove_blocking_stone(flat.analysis,
                                         StandingStone(color), nx, ny)
                             a2 == add_flatstone(a1, color, nx, ny,
                                         Len(flat.board[nx][ny]) - 1)
                         IN [status |-> "Ok", next |-> [flat EXCEPT !.analysis = a2]]
                    ELSE [status |-> "IllegalSlide", next |-> next]
              [] OTHER -> [status |-> "Ok", next |-> next]

\* As PopCarried, taking the piece that was picked up first.
PopCarried_Fifo(stack) == [piece |-> Head(stack), stack |-> Tail(stack)]

\* `stack.pop().unwrap()` in the drop loop: the piece picked up last.
PopCarried(stack) == [piece |-> Last(stack), stack |-> Front(stack)]

\* `for _ in 0..*drop`: cover the top of the target, pop the carried stack
\* and push the piece on the target.
RECURSIVE DropLoop(_, _, _, _, _)
DropLoop(next, stack, nx, ny, n) ==
    IF n = 0 THEN [panic |-> FALSE, next |-> next, stack |-> stack]
    ELSE IF stack = <<>>
    THEN [panic |-> TRUE, next |-> next, stack |-> stack]
    ELSE LET covered ==
                 IF next.board[nx][ny] # <<>>
                 THEN cover_flatstone(next.analysis,
                                      get_color(Last(next.board[nx][ny])), nx, ny)
                 ELSE next.analysis
             piece == PopCarried(stack).piece
             added ==
                 IF piece.kind = "Flatstone"
                 THEN add_flatstone(covered, piece.color, nx, ny,
                                    Len(next.board[nx][ny]))
                 ELSE add_blocking_stone(covered, piece, nx, ny)
         IN DropLoop([next EXCEPT !.board[nx][ny] = Append(@, piece),
                                  !.analysis = added],
                     PopCarried(stack).stack, nx, ny, n - 1)

\* `for drop in drops`: step, bounds check, target check, drops.
RECURSIVE WalkDrops(_, _, _, _, _, _, _, _)
WalkDrops(self, next, stack, nx, ny, dx, dy, drops) ==
    IF drops = <<>>
    THEN LET done == [next EXCEPT !.analysis = calculate_road_groups(@)]
         IN Returned("Ok", done, SelfAfter(self, done))
    ELSE LET board_size == BoardSize(next)
             mx == nx + dx
             my == ny + dy
         IN IF mx < 0 \/ mx >= board_size \/ my < 0 \/ my >= board_size
            THEN Returned("OutOfBounds", next, SelfAfter(self, next))
            ELSE LET chk == CheckTarget(next, stack, mx, my)
                 IN IF chk.status # "Ok"
                    THEN Returned(chk.status, chk.next, SelfAfter(self, chk.next))
                    ELSE LET d == DropLoop(chk.next, stack, mx, my, Head(drops))
                         IN IF d.panic
                            THEN Returned("Panic", d.next, SelfAfter(self, d.next))
                            ELSE WalkDrops(self, d.next, d.stack, mx, my, dx, dy,
                                           Tail(drops))

\* As ExecuteSlide, with the whole path looked at before anything is picked up.
ExecuteSlide_BoundsFirst(self, next, x, y, direction, drops) ==
    LET grab == SumSeq(drops)
        off == to_offset(direction)
        board_size == BoardSize(next)
    IN IF SlideRefused(next, x, y, grab)
       THEN Returned("IllegalSlide", next, SelfAfter(self, next))
       ELSE IF \E k \in 1 .. Len(drops) :
                  \/ x + k * off[1] \notin 0 .. board_size - 1
                  \/ y + k * off[2] \notin 0 .. board_size - 1
       THEN Returned("OutOfBounds", next, SelfAfter(self, next))
       ELSE LET picked == PopLoop(next, x, y, grab, <<>>)
            IN IF picked.panic
               THEN Returned("Panic", picked.next, SelfAfter(self, picked.next))
               ELSE WalkDrops(self, picked.next, picked.stack, x, y,
                              off[1], off[2], drops)

\* The Ply::Slide arm of execute_ply.
ExecuteSlide(self, next, x, y, direction, drops) ==
    LET grab == SumSeq(drops)
    IN IF SlideRefused(next, x, y, grab)
       THEN Returned("IllegalSlide", next, SelfAfter(self, next))
       ELSE LET picked == PopLoop(next, x, y, grab, <<>>)
                off == to_offset(direction)
            IN IF picked.panic
               THEN Returned("Panic", picked.next, SelfAfter(self, picked.next))
               ELSE WalkDrops(self, picked.next, picked.stack, x, y,
                              off[1], off[2], drops)

\* State::execute_ply
execute_ply(self, p) ==
    LET next == [self EXCEPT !.ply_count = (@ + 1) % 65536]
    IN IF p.type = "Place" THEN ExecutePlace(self, next, p.x, p.y, p.piece)
       ELSE ExecuteSlide(self, next, p.x, p.y, p.direction, p.drops)

\* State::execute_ply as built with overflow checks: `next.ply_count += 1` on
\* the u16 panics when the sum does not fit; as built without them it wraps,
\* which is execute_ply above.
execute_ply_checked(self, p) ==
    IF self.ply_count + 1 > 65535 THEN Returned("Panic", self, SelfAfter(self, self))
    ELSE execute_ply(self, p)

\* The closure has_road of check_win.
has_road(groups, board_size) ==
    \E group \in groups :
        \/ /\ group \cap EDGE(board_size, North) # {}
           /\ group \cap EDGE(board_size, South) # {}
        \/ /\ group \cap EDGE(board_size, West) # {}
           /\ group \cap EDGE(board_size, East) # {}

Road(color) == [win |-> "Road", color |-> color]
Flat(color) == [win |-> "Flat", color |-> color]
Draw == [win |-> "Draw", color |-> "-"]
None == [win |-> "None", color |-> "-"]

\* As DoubleRoadWinner, with the parity the other way round.
DoubleRoadWinner_Flipped(count) == IF count % 2 = 1 THEN Black ELSE White

\* Which color takes a double road.
DoubleRoadWinner(count) == IF count % 2 = 1 THEN White ELSE Black

\* As FlatCountDue, without the full board.
FlatCountDue_ReservesOnly(s) ==
    \/ s.p1.flatstone_count + s.p1.capstone_count = 0
    \/ s.p2.flatstone_count + s.p2.capstone_count = 0

\* The condition that ends a game without a road.
FlatCountDue(s) ==
    \/ s.p1.flatstone_count + s.p1.capstone_count = 0
    \/ s.p2.flatstone_count + s.p2.capstone_count = 0
    \/ (s.analysis.p1_pieces \cup s.analysis.p2_pieces) = BOARD(BoardSize(s))

\* The flat count comparison.
FlatWin(a) ==
    IF a.p1_flatstone_count > a.p2_flatstone_count THEN Flat(White)
    ELSE IF a.p2_flatstone_count > a.p1_flatstone_count THEN Flat(Black)
    ELSE Draw

\* State::check_win
check_win(s) ==
    LET board_size == BoardSize(s)
        a == s.analysis
        p1_has_road == has_road(a.p1_road_groups, board_size)
        p2_has_road == has_road(a.p2_road_groups, board_size)
    IN IF p1_has_road /\ p2_has_road THEN Road(DoubleRoadWinner(s.ply_count))
       ELSE IF p1_has_road THEN Road(White)
       ELSE IF p2_has_road THEN Road(Black)
       ELSE IF FlatCountDue(s) THEN FlatWin(a)
       ELSE None

\* ------------------------------------------------------------ the program

\* The State the caller holds.
Self ==
    [p1 |-> p1, p2 |-> p2, board |-> board, ply_count |-> ply_count,
     analysis |-> analysis]

\* No token has been given to from_ptn.
Unparsed == [type |-> "Unparsed"]

\* ------------------------------------------------------ play_game_tei
\* position is the local `board: Option<State>` of the loop, received the
\* commands taken off tei_receiver so far, to_engine the messages sent to
\* the engine, plies the Vec of the Position arm, tei where the loop stands:
\* Running, Quit (it returned Ok), RecvError (it returned the error of
\* from_engine.recv) or Panic.

NoBoard == [some |-> FALSE]
SomeBoard(s) == [some |-> TRUE, state |-> s]

NewGame(s) == [type |-> "NewGame", size |-> s]
Go == [type |-> "Go"]
Stop == [type |-> "Stop"]
Quit == [type |-> "Quit"]
Position(line) == [type |-> "Position", line |-> line]

GameStart(color) == [type |-> "GameStart", color |-> color]
MoveRequest(s) == [type |-> "MoveRequest", state |-> s]

\* What comes back from the engine after a MoveRequest: a MoveResponse,
\* another message, or the end of the channel.
Replies == {"MoveResponse", "Other", "Disconnected"}

\* Color::flip
flip(color) == IF color = White THEN Black ELSE White

\* State::from_plies is not among the sources; the front end is layered on
\* State::new and execute_ply (design document, section 6): the plies are
\* executed in order on a new State, and a ply that is turned down gives no
\* State.
RECURSIVE ExecuteAll(_, _)
ExecuteAll(s, list) ==
    IF list = <<>> THEN SomeBoard(s)
    ELSE LET r == execute_ply(s, Head(list))
         IN IF r.status = "Ok" THEN ExecuteAll(r.next, Tail(list)) ELSE NoBoard

from_plies(board_size, list) == ExecuteAll(NewState(board_size), list)

\* As TokenColor, without the swap of the opening.
TokenColor_NoSwap(count, side_to_move) == side_to_move

\* The color a token is parsed with: swapped for the first two plies.
TokenColor(count, side_to_move) ==
    IF count < 2 THEN flip(side_to_move) ELSE side_to_move

\* The side to move after a token: flipped when the token gave a Ply.
SideAfter(m, side_to_move) ==
    IF m # NoPly THEN flip(side_to_move) ELSE side_to_move

\* `for m in s.split_whitespace()`: the line is the sequence of its tokens.
RECURSIVE ParseTokens(_, _, _, _, _)
ParseTokens(tokens, side_to_move, count, list, overflow_checks) ==
    IF tokens = <<>> THEN [panic |-> FALSE, plies |-> list]
    ELSE LET color == TokenColor(count, side_to_move)
             m == from_ptn(Head(tokens), color, overflow_checks)
         IN IF m = PanicPly THEN [panic |-> TRUE, plies |-> list]
            ELSE ParseTokens(Tail(tokens), SideAfter(m, side_to_move),
                             IF m # NoPly THEN count + 1 ELSE count,
                             IF m # NoPly THEN Append(list, m) ELSE list,
                             overflow_checks)

TeiStart ==
    /\ position = NoBoard
    /\ size = 5
    /\ received = <<>>
    /\ to_engine = <<>>
    /\ plies = <<>>
    /\ tei = "Running"

\* `let message = tei_receiver.recv()?`
Receive(message) ==
    /\ tei = "Running"
    /\ Len(received) < MaxCommands
    /\ received' = Append(received, message)
    /\ UNCHANGED <<p1, p2, board, ply_count, analysis, source, ply, result,
                   ptn, mover, parsed>>

\* TeiCommand::NewGame(s); State::new panics on a size it does not know.
TeiNewGame(sizes) ==
    \E s \in sizes :
        /\ Receive(NewGame(s))
        /\ IF s \in BoardSizes
           THEN /\ position' = SomeBoard(NewState(s))
                /\ size' = s
                /\ to_engine' = Append(to_engine, GameStart(White))
                /\ tei' = "Running"
           ELSE /\ tei' = "Panic"
                /\ UNCHANGED <<position, size, to_engine>>
        /\ UNCHANGED plies

\* TeiCommand::Go: `board.take().unwrap()`, the MoveRequest, and the wait
\* for the answer of the engine.
TeiGo ==
    /\ Receive(Go)
    /\ position' = NoBoard
    /\ IF position.some
       THEN /\ to_engine' = Append(to_engine, MoveRequest(position.state))
            /\ \E reply \in Replies :
                    tei' = IF reply = "Disconnected" THEN "RecvError" ELSE "Running"
       ELSE /\ tei' = "Panic"
            /\ UNCHANGED to_engine
    /\ UNCHANGED <<size, plies>>

\* TeiCommand::Position(s)
TeiPosition(lines) ==
    \E line \in lines, overflow_checks \in BOOLEAN :
        /\ Receive(Position(line))
        /\ LET read == ParseTokens(line, White, 0, <<>>, overflow_checks)
               built == from_plies(size, read.plies)
           IN /\ plies' = read.plies
              /\ IF read.panic \/ ~built.some
                 THEN /\ tei' = "Panic"
                      /\ UNCHANGED position
                 ELSE /\ tei' = "Running"
                      /\ position' = built
        /\ UNCHANGED <<size, to_engine>>

\* TeiCommand::Quit
TeiQuit ==
    /\ Receive(Quit)
    /\ tei' = "Quit"
    /\ UNCHANGED <<position, size, to_engine, plies>>

\* TeiCommand::Stop falls to `_ => println!("Unknown command ...")`.
TeiStop ==
    /\ Receive(Stop)
    /\ UNCHANGED <<position, size, to_engine, plies, tei>>

InitSize(board_size) ==
    LET s == NewState(board_size)
    IN /\ p1 = s.p1
       /\ p2 = s.p2
       /\ board = s.board
       /\ ply_count = s.ply_count
       /\ analysis = s.analysis
       /\ source = s
       /\ ply = NoPly
       /\ result = "New"
       /\ ptn = <<>>
       /\ mover = White
       /\ parsed = Unparsed
       /\ TeiStart

\* One call of execute_ply on the State the caller holds.  With Ok the caller
\* goes on with the returned State, with a GameError with the State it called
\* on; a panic ends the program.  `source` is the State the call was made on
\* as it stands after the call.  A rejected call is not explored further: the
\* caller holds the State it held before the call, which is explored there.
\* Where the two builds of execute_ply differ, either outcome is taken.
Call(p) ==
    /\ result \in {"New", "Ok"}
    /\ \E r \in {execute_ply(Self, p), execute_ply_checked(Self, p)} :
       LET s == IF r.status = "Ok" THEN r.next ELSE r.self
       IN /\ ply' = p
          /\ result' = r.status
          /\ source' = r.self
          /\ p1' = s.p1
          /\ p2' = s.p2
          /\ board' = s.board
          /\ ply_count' = s.ply_count
          /\ analysis' = s.analysis
          /\ UNCHANGED <<ptn, mover, parsed>>
          /\ UNCHANGED <<position, size, received, to_engine, plies, tei>>

\* The drops lists tried: one or two entries of 0 .. MaxDrop each.
DropLists ==
    {<<a>> : a \in 0 .. MaxDrop} \cup {<<a, b>> : a \in 0 .. MaxDrop, b \in 0 .. MaxDrop}

\* The corner of a larger board the plies of a specification are aimed at
\* (a Slide may carry pieces out of it).
Corner == (0 .. MaxCoord) \X (0 .. MaxCoord)

\* An opening is a sequence of sets of plies: the k-th successful ply of a
\* game is drawn from the k-th set.  After the opening the plies are drawn
\* from the sets given to Place and Slide, for MaxPly more successful plies.
OpeningPly(opening) ==
    /\ ply_count < Len(opening)
    /\ \E p \in opening[ply_count + 1] : Call(p)

Place(opening, cells, pieces) ==
    /\ ply_count >= Len(opening)
    /\ ply_count < Len(opening) + MaxPly
    /\ \E c \in cells, piece \in pieces : Call(PlacePly(c[1], c[2], piece))

Slide(opening, cells, lists) ==
    /\ ply_count >= Len(opening)
    /\ ply_count < Len(opening) + MaxPly
    /\ \E c \in cells, direction \in Direction, drops \in lists :
            Call(SlidePly(c[1], c[2], direction, drops))

\* ---- Spec: a board of size 3; one piece is placed (on a corner, an edge
\* or the centre cell), then every Place and every Slide on every cell.

Init == InitSize(3)

Opening ==
    <<{PlacePly(c[1], c[2], piece) : c \in {<<0, 0>>, <<1, 0>>, <<1, 1>>}, piece \in Piece}>>

Open == OpeningPly(Opening)
PlaceAny == Place(Opening, BOARD(3), Piece)
SlideAny == Slide(Opening, BOARD(3), DropLists)

Next == Open \/ PlaceAny \/ SlideAny

Spec == Init /\ [][Next]_vars

\* ---- SpecCap: a board of size 5 (one capstone each).  A flatstone at a1,
\* a capstone or a flatstone at a2 that is slid onto a1 or to b2, a standing
\* stone at b1; then every Place and Slide aimed at the corner.

InitCap == InitSize(5)

OpeningCap ==
    <<{PlacePly(0, 0, Flatstone(Black))},
      {PlacePly(0, 1, Capstone(White)), PlacePly(0, 1, Flatstone(White))},
      {SlidePly(0, 1, South, <<1>>), SlidePly(0, 1, East, <<1>>)},
      {PlacePly(1, 0, StandingStone(c)) : c \in Color}>>

OpenCap == OpeningPly(OpeningCap)
PlaceCap == Place(OpeningCap, Corner, Piece)
SlideCap == Slide(OpeningCap, Corner, DropLists)

NextCap == OpenCap \/ PlaceCap \/ SlideCap

SpecCap == InitCap /\ [][NextCap]_vars

\* ---- SpecRoad: a board of size 3.  White builds the a file and Black the
\* c file, with or without a ply in between; then every Place and Slide.

OpeningRoad ==
    <<{PlacePly(0, 0, Flatstone(White))},
      {PlacePly(0, 1, Flatstone(White))},
      {PlacePly(2, 0, Flatstone(Black))},
      {PlacePly(2, 1, Flatstone(Black))},
      {PlacePly(0, 2, Flatstone(White)), PlacePly(1, 1, StandingStone(White))},
      {PlacePly(2, 2, Flatstone(Black)), PlacePly(0, 2, Flatstone(White))}>>

OpenRoad == OpeningPly(OpeningRoad)
PlaceRoad == Place(OpeningRoad, BOARD(3), Piece)
SlideRoad == Slide(OpeningRoad, BOARD(3), DropLists)

NextRoad == OpenRoad \/ PlaceRoad \/ SlideRoad

SpecRoad == Init /\ [][NextRoad]_vars

\* ---- SpecEnd: a board of size 3 played to the end of the reserves.  Three
\* white flatstones are stacked on b1, then seven cells are walled in, some
\* with a choice of piece, and c3 is left empty; then every Place and Slide.

OpeningEnd ==
    <<{PlacePly(0, 0, Flatstone(White))},
      {PlacePly(1, 0, Flatstone(White))},
      {SlidePly(0, 0, East, <<1>>)},
      {PlacePly(0, 0, Flatstone(White))},
      {SlidePly(0, 0, East, <<1>>)},
      {PlacePly(0, 0, StandingStone(White)), PlacePly(0, 0, Flatstone(Black))},
      {PlacePly(2, 0, StandingStone(White)), PlacePly(2, 0, Flatstone(Black))},
      {PlacePly(0, 1, StandingStone(White))},
      {PlacePly(1, 1, StandingStone(White))},
      {PlacePly(2, 1, StandingStone(White))},
      {PlacePly(0, 2, StandingStone(White))},
      {PlacePly(1, 2, StandingStone(White)), PlacePly(1, 2, Flatstone(White)),
       PlacePly(1, 2, Flatstone(Black))}>>

OpenEnd == OpeningPly(OpeningEnd)
PlaceEnd == Place(OpeningEnd, BOARD(3), Piece)
SlideEnd == Slide(OpeningEnd, BOARD(3), DropLists)

NextEnd == OpenEnd \/ PlaceEnd \/ SlideEnd

SpecEnd == Init /\ [][NextEnd]_vars

\* ---- SpecLate: a board of size 3 late in a long game.  A white flatstone
\* was placed on a1 and has since been slid to b1 and back again and again:
\* after the placement and 65533 slides it lies on b1 and 65534 plies have
\* been counted.  Then every Place and Slide, until the count starts anew.

LateState ==
    LET placed == execute_ply(NewState(3), PlacePly(0, 0, Flatstone(White))).next
        slid == execute_ply(placed, SlidePly(0, 0, East, <<1>>)).next
    IN [slid EXCEPT !.ply_count = 65534]

InitLate ==
    /\ p1 = LateState.p1
    /\ p2 = LateState.p2
    /\ board = LateState.board
    /\ ply_count = LateState.ply_count
    /\ analysis = LateState.analysis
    /\ source = LateState
    /\ ply = NoPly
    /\ result = "New"
    /\ ptn = <<>>
    /\ mover = White
    /\ parsed = Unparsed
    /\ TeiStart

PlaceLate ==
    /\ ply_count >= LateState.ply_count
    /\ \E c \in BOARD(3), piece \in Piece : Call(PlacePly(c[1], c[2], piece))

SlideLate ==
    /\ ply_count >= LateState.ply_count
    /\ \E c \in BOARD(3), direction \in Direction, drops \in DropLists :
            Call(SlidePly(c[1], c[2], direction, drops))

NextLate == PlaceLate \/ SlideLate

SpecLate == InitLate /\ [][NextLate]_vars

\* ---- SpecParse: one call of from_ptn.  The token is put together from an
\* optional piece letter, grab digit, column, row and direction symbol, each
\* slot also tried with a character that does not belong there, and up to
\* MaxTail characters after them; or it is the notation of a Ply.

Chars(names) == {<<Chr(s)>> : s \in names}

Optional(names) == {<<>>} \cup Chars(names)

RECURSIVE Tails(_)
Tails(n) ==
    IF n = 0 THEN {<<>>}
    ELSE LET shorter == Tails(n - 1)
         IN shorter \cup {t \o c : t \in shorter, c \in Chars({"0", "1", "x"})}

Tokens ==
    {a \o b \o c \o d \o e \o f :
        a \in Optional({"S", "C", "F", "X"}),
        b \in Optional({"0", "1", "2"}),
        c \in Optional({"a", "h", "A", "e-acute", "a-macron"}),
        d \in Optional({"0", "1", "9", "x"}),
        e \in Optional({"+", ">", "-", "<", "*"}),
        f \in Tails(MaxTail)}

\* The plies whose notation is tried: on the cells of the corner and of the
\* far edge of the largest board, with drops that sum to 9 at most.
Coords == (0 .. MaxCoord) \cup {7}

ValidPlies(color) ==
    {PlacePly(x, y, piece) :
        x \in Coords, y \in Coords,
        piece \in {Flatstone(color), StandingStone(color), Capstone(color)}}
    \cup {SlidePly(c[1], c[2], direction, drops) :
        c \in Coords \X Coords, direction \in Direction,
        drops \in DropLists \cup {<<9>>, <<4, 5>>, <<1, 1, 1>>, <<3, 3, 3>>}}

\* A notation of a Ply: the piece letter (none for a flatstone), or the grab
\* digit; the column letter and the row digit; for a Slide the direction
\* symbol and, for more than one drop, a digit for each.
Notation(p) ==
    LET cell == <<97 + p.x, 49 + p.y>>
    IN IF p.type = "Place"
       THEN (CASE p.piece.kind = "Flatstone" -> <<>>
               [] p.piece.kind = "StandingStone" -> <<Chr("S")>>
               [] p.piece.kind = "Capstone" -> <<Chr("C")>>) \o cell
       ELSE <<48 + SumSeq(p.drops)>> \o cell
            \o (CASE p.direction = North -> <<Chr("+")>>
                   [] p.direction = East -> <<Chr(">")>>
                   [] p.direction = South -> <<Chr("-")>>
                   [] p.direction = West -> <<Chr("<")>>)
            \o (IF Len(p.drops) = 1 THEN <<>>
                ELSE [k \in 1 .. Len(p.drops) |-> 48 + p.drops[k]])

InitParse ==
    LET s == NewState(3)
    IN /\ p1 = s.p1
       /\ p2 = s.p2
       /\ board = s.board
       /\ ply_count = s.ply_count
       /\ analysis = s.analysis
       /\ source = s
       /\ ply = NoPly
       /\ result = "New"
       /\ mover \in Color
       /\ ptn \in Tokens \cup {Notation(p) : p \in ValidPlies(mover)}
       /\ parsed = Unparsed
       /\ TeiStart

\* The call of from_ptn on the token, in either build.
Parse ==
    /\ parsed = Unparsed
    /\ \E overflow_checks \in BOOLEAN :
            parsed' = from_ptn(ptn, mover, overflow_checks)
    /\ UNCHANGED <<p1, p2, board, ply_count, analysis, source, ply, result,
                   ptn, mover>>
    /\ UNCHANGED <<position, size, received, to_engine, plies, tei>>

NextParse == Parse

SpecParse == InitParse /\ [][NextParse]_vars

\* ---------------------------------------------------------------- SpecTei
\* The game loop of the TEI front end under any commands: new games of two
\* sizes, Go, Stop, Quit and a few Position lines.

\* A token from the names of its characters.
Token(names) == [k \in 1 .. Len(names) |-> Chr(names[k])]

\* tei_loop sends the whole line, which starts with the word `position`.
Word == Token(<<"p", "o", "s", "i", "t", "i", "o", "n">>)

TeiSizes == {3, 5}

TeiLines ==
    {<<Word>>,
     <<Word, Token(<<"a", "1">>)>>,
     <<Word, Token(<<"a", "1">>), Token(<<"a", "1">>)>>}

InitTei == InitSize(5)

NextTei ==
    \/ TeiNewGame(TeiSizes)
    \/ TeiGo
    \/ TeiPosition(TeiLines)
    \/ TeiStop
    \/ TeiQuit

SpecTei == InitTei /\ [][NextTei]_vars

\* ----------------------------------------------------------- SpecPosition
\* One Position command after up to MaxCommands - 1 new games; the line has
\* up to MaxTokens tokens after its first word. The k-th token names the
\* k-th cell of Cells, as a flatstone (no letter before it), as a standing
\* stone (S) or with a letter that makes it no ply (X): a line can name a
\* cell twice, which no sequence of plies may.

Cells == <<<<"a", "1">>, <<"b", "1">>, <<"a", "2">>, <<"b", "1">>, <<"b", "2">>, <<"a", "2">>>>

Cell(k) == Cells[((k - 1) % Len(Cells)) + 1]

Letters == {<<>>, <<"S">>, <<"X">>}

PositionLines ==
    {<<Word>> \o [k \in 1 .. n |-> Token(letters[k] \o Cell(k))] :
        n \in 0 .. MaxTokens, letters \in [1 .. MaxTokens -> Letters]}

OnlyNewGames == \A i \in DOMAIN received : received[i].type = "NewGame"

NewGameFirst == OnlyNewGames /\ TeiNewGame(TeiSizes)

PositionLast == OnlyNewGames /\ TeiPosition(PositionLines)

NextPosition == NewGameFirst \/ PositionLast

SpecPosition == InitTei /\ [][NextPosition]_vars

\* ------------------------------------------------------------- properties

GameErrors == {"IllegalPlacement", "InsufficientPieces", "IllegalSlide", "OutOfBounds"}

\* The pieces of one stack, of one board, that satisfy a test.
RECURSIVE CountIn(_, _, _)
CountIn(stack, color, kinds) ==
    IF stack = <<>> THEN 0
    ELSE (IF Head(stack).color = color /\ Head(stack).kind \in kinds THEN 1 ELSE 0)
         + CountIn(Tail(stack), color, kinds)

RECURSIVE SumOver(_, _, _, _)
SumOver(cells, b, color, kinds) ==
    IF cells = {} THEN 0
    ELSE LET c == CHOOSE c \in cells : TRUE
         IN CountIn(b[c[1]][c[2]], color, kinds) + SumOver(cells \ {c}, b, color, kinds)

AllKinds == {"Flatstone", "StandingStone", "Capstone"}

\* The pieces of a color on the board, of all three kinds, at any height.
OnBoard(color) == SumOver(BOARD(BoardSize(Self)), board, color, AllKinds)

ReserveOf(color) ==
    IF color = White THEN p1.flatstone_count + p1.capstone_count
    ELSE p2.flatstone_count + p2.capstone_count

\* C1: every call of execute_ply returns a new State or one of the four
\* GameErrors; no call ends in a panic.
C1_NeverPanics == result \in {"New", "Ok"} \cup GameErrors

\* C2: for each color, the pieces of that color on the board plus its
\* flatstone and capstone reserves equal the starting allocation of the
\* board size.
C2_Conservation ==
    \A color \in Color :
        OnBoard(color) + ReserveOf(color)
            = StartFlatstones(BoardSize(Self)) + StartCapstones(BoardSize(Self))

\* A capstone, a standing stone and a flatstone are on the board and the last
\* call was a Slide that moved a piece and returned a new State.
C2_Witness ==
    /\ result = "Ok"
    /\ ply.type = "Slide"
    /\ SumSeq(ply.drops) > 0
    /\ \A kind \in AllKinds : \E color \in Color : SumOver(BOARD(5), board, color, {kind}) > 0
    /\ BoardSize(Self) = 5

\* C3: the State a call was made on is after the call what it was before it,
\* whether the call returned a new State or a rejection; after a rejection
\* that is the State the caller holds.
C3_SourceUnchanged ==
    [][/\ source' = Self
       /\ result' # "Ok" => Self' = Self]_vars

\* A Slide was rejected after pieces had been popped and dropped in the
\* working copy, and the caller's State is the one the call was made on.
C3_Witness ==
    /\ ply.type = "Slide"
    /\ result = "OutOfBounds"
    /\ Len(ply.drops) = 2
    /\ ply.drops[1] > 0
    /\ execute_ply(Self, ply).next.board # board
    /\ source = Self

\* ---- roads, tops and counts read off the board

Stack(b, c) == b[c[1]][c[2]]

TopKind(b, c) == IF Stack(b, c) = <<>> THEN "Empty" ELSE Last(Stack(b, c)).kind

\* The cells whose top piece is a flatstone or a capstone of the color.
RoadCells(color) ==
    {c \in BOARD(BoardSize(Self)) :
        /\ TopKind(board, c) \in {"Flatstone", "Capstone"}
        /\ Last(Stack(board, c)).color = color}

RECURSIVE Spread(_, _)
Spread(reached, cells) ==
    LET step == reached \cup {c \in cells : \E r \in reached : Adjacent(c, r)}
    IN IF step = reached THEN reached ELSE Spread(step, cells)

\* A chain of edge-adjacent road cells of the color from one edge to another.
Spans(color, from, to) ==
    LET n == BoardSize(Self)
    IN Spread(RoadCells(color) \cap EDGE(n, from), RoadCells(color)) \cap EDGE(n, to) # {}

BoardRoad(color) == Spans(color, North, South) \/ Spans(color, West, East)

RoadGroups(color) ==
    IF color = White THEN analysis.p1_road_groups ELSE analysis.p2_road_groups

TopFlats(color) ==
    Cardinality({c \in BOARD(BoardSize(Self)) :
                    /\ TopKind(board, c) = "Flatstone"
                    /\ Last(Stack(board, c)).color = color})

BoardFull == \A c \in BOARD(BoardSize(Self)) : Stack(board, c) # <<>>

Exhausted(color) == ReserveOf(color) = 0

FlatReserve(color) ==
    IF color = White THEN p1.flatstone_count ELSE p2.flatstone_count

\* C4: check_win reports a road of a color exactly when the board holds a
\* chain of edge-adjacent cells topped by that color's flatstones or
\* capstones joining north and south or west and east: the road groups kept
\* by the analysis agree with the connectivity computed from the board.
C4_RoadsAgree ==
    LET w == check_win(Self)
    IN /\ \A color \in Color :
            has_road(RoadGroups(color), BoardSize(Self)) <=> BoardRoad(color)
       /\ w.win = "Road" <=> \E color \in Color : BoardRoad(color)
       /\ w.win = "Road" => BoardRoad(w.color)

\* The a file is full of white flatstones right after the placement on a3,
\* and check_win says Road(White).
C4_Witness ==
    /\ result = "Ok"
    /\ ply = PlacePly(0, 2, Flatstone(White))
    /\ \A y \in 0 .. 2 : board[0][y] = <<Flatstone(White)>>
    /\ ~BoardRoad(Black)
    /\ check_win(Self) = Road(White)

\* C5: with a road of each color on the board check_win returns the road of
\* the mover, White after an odd number of plies and Black after an even one.
C5_DoubleRoad ==
    (BoardRoad(White) /\ BoardRoad(Black))
        => check_win(Self) = Road(IF ply_count % 2 = 1 THEN White ELSE Black)

\* Both roads stand after the seventh ply and check_win says Road(White).
C5_Witness ==
    /\ BoardRoad(White)
    /\ BoardRoad(Black)
    /\ ply_count % 2 = 1
    /\ result = "Ok"
    /\ check_win(Self) = Road(White)

\* C6: without a road, check_win returns the flat count result (the color
\* with more top-of-stack flatstones, Draw on equal counts) when a color's
\* reserves are both zero or every cell is occupied, and None otherwise; the
\* counts compared are the numbers of cells topped by a flatstone of the
\* color.
C6_FlatCount ==
    /\ analysis.p1_flatstone_count = TopFlats(White)
    /\ analysis.p2_flatstone_count = TopFlats(Black)
    /\ (~BoardRoad(White) /\ ~BoardRoad(Black)) =>
          check_win(Self) =
              IF Exhausted(White) \/ Exhausted(Black) \/ BoardFull
              THEN (IF TopFlats(White) > TopFlats(Black) THEN Flat(White)
                    ELSE IF TopFlats(Black) > TopFlats(White) THEN Flat(Black)
                    ELSE Draw)
              ELSE None

\* Every cell is occupied, one of them by a standing stone, neither reserve is
\* used up, no road stands, and check_win returns the flat count result.
C6_Witness ==
    /\ BoardFull
    /\ ~Exhausted(White)
    /\ ~Exhausted(Black)
    /\ ~BoardRoad(White)
    /\ ~BoardRoad(Black)
    /\ \E c \in BOARD(3) : TopKind(board, c) = "StandingStone"
    /\ result = "Ok"
    /\ check_win(Self).win \in {"Flat", "Draw"}

\* ---- the path of a Slide

PathCell(p, k) ==
    LET off == to_offset(p.direction)
    IN <<p.x + k * off[1], p.y + k * off[2]>>

PathLen(p) == IF p.type = "Slide" THEN Len(p.drops) ELSE 0

\* The pieces still carried when the k-th cell of the path is reached.
Carried(p, k) == SumSeq(p.drops) - SumSeq(SubSeq(p.drops, 1, k - 1))

\* The Slide p picks up pieces that are there, and its path reaches, over
\* cells that are empty or topped by a flatstone, a k-th cell topped by a
\* standing stone.
MeetsStanding(p, k) ==
    /\ p.type = "Slide"
    /\ k \in 1 .. Len(p.drops)
    /\ Stack(board, <<p.x, p.y>>) # <<>>
    /\ SumSeq(p.drops) <= Len(Stack(board, <<p.x, p.y>>))
    /\ SumSeq(p.drops) <= BoardSize(Self)
    /\ \A i \in 1 .. k : PathCell(p, i) \in BOARD(BoardSize(Self))
    /\ \A i \in 1 .. k - 1 : TopKind(board, PathCell(p, i)) \in {"Empty", "Flatstone"}
    /\ TopKind(board, PathCell(p, k)) = "StandingStone"

\* A single capstone is carried onto the k-th cell.
SingleCapstone(p, k) ==
    /\ Carried(p, k) = 1
    /\ TopKind(board, <<p.x, p.y>>) = "Capstone"

\* More than one piece, or a single piece that is no capstone.
BadCarry(p, k) ==
    \/ Carried(p, k) > 1
    \/ Carried(p, k) = 1 /\ TopKind(board, <<p.x, p.y>>) # "Capstone"

\* C7 as stated: a single carried capstone slid onto a cell topped by a
\* standing stone succeeds and the top of that cell is then a flatstone of
\* the standing stone's color; more than one carried piece, or a single one
\* that is no capstone, is an IllegalSlide.
C7_AsStated ==
    [][\A k \in 1 .. PathLen(ply') :
          MeetsStanding(ply', k) =>
            LET t == PathCell(ply', k)
            IN /\ (SingleCapstone(ply', k) /\ k = Len(ply'.drops)) =>
                     /\ result' = "Ok"
                     /\ Last(Stack(board', t))
                            = Flatstone(Last(Stack(board, t)).color)
               /\ BadCarry(ply', k) => result' = "IllegalSlide"]_vars

\* C7 (amended): a single carried capstone slid onto a cell topped by a
\* standing stone succeeds; the standing stone is then a flatstone of its own
\* color lying directly under the capstone, which is the top of that cell.
\* More than one carried piece, or a single one that is no capstone, slid
\* onto a cell topped by a standing stone is an IllegalSlide.
C7_Flattening ==
    [][\A k \in 1 .. PathLen(ply') :
          MeetsStanding(ply', k) =>
            LET t == PathCell(ply', k)
                old == Stack(board, t)
            IN /\ (SingleCapstone(ply', k) /\ k = Len(ply'.drops)) =>
                     /\ result' = "Ok"
                     /\ Stack(board', t)
                          = Front(old) \o <<Flatstone(Last(old).color),
                                             Last(Stack(board, <<ply'.x, ply'.y>>))>>
               /\ BadCarry(ply', k) => result' = "IllegalSlide"]_vars

\* A capstone was slid onto a standing stone: the call returned a new State
\* and the cell holds the capstone on a flatstone.
C7_Witness ==
    /\ result = "Ok"
    /\ ply.type = "Slide"
    /\ source.board[PathCell(ply, Len(ply.drops))[1]][PathCell(ply, Len(ply.drops))[2]] # <<>>
    /\ Last(source.board[PathCell(ply, Len(ply.drops))[1]][PathCell(ply, Len(ply.drops))[2]]).kind
            = "StandingStone"
    /\ TopKind(board, PathCell(ply, Len(ply.drops))) = "Capstone"

\* C8 as stated: with a color's flatstone reserve at 0, every Place of a
\* flatstone of that color, on any cell, is InsufficientPieces.
C8_AsStated ==
    [][(/\ ply'.type = "Place"
        /\ ply'.piece.kind = "Flatstone"
        /\ FlatReserve(ply'.piece.color) = 0)
          => result' = "InsufficientPieces"]_vars

\* C8 (amended): a flatstone reserve that is 0 stays 0, and with it at 0
\* every Place of a flatstone of that color on an empty cell is
\* InsufficientPieces (on an occupied cell it is IllegalPlacement).
C8_Exhaustion ==
    [][/\ \A color \in Color :
            FlatReserve(color) = 0 =>
                IF color = White THEN p1'.flatstone_count = 0
                ELSE p2'.flatstone_count = 0
       /\ (/\ ply'.type = "Place"
           /\ ply'.piece.kind = "Flatstone"
           /\ FlatReserve(ply'.piece.color) = 0)
             => result' = IF Stack(board, <<ply'.x, ply'.y>>) = <<>>
                          THEN "InsufficientPieces"
                          ELSE "IllegalPlacement"]_vars

\* White's flatstone reserve is 0 and a Place of a white flatstone on the
\* empty cell was turned down with InsufficientPieces.
C8_Witness ==
    /\ p1.flatstone_count = 0
    /\ ply.type = "Place"
    /\ ply.piece = Flatstone(White)
    /\ Stack(board, <<ply.x, ply.y>>) = <<>>
    /\ result = "InsufficientPieces"

\* C9: a Place on a non-empty cell is IllegalPlacement, whatever the piece
\* and the reserves, and changes no reserve.
C9_PlaceOnOccupied ==
    [][(ply'.type = "Place" /\ Stack(board, <<ply'.x, ply'.y>>) # <<>>)
          => /\ result' = "IllegalPlacement"
             /\ p1' = p1
             /\ p2' = p2]_vars

\* A capstone, of which the reserve holds none, was placed on an occupied
\* cell and turned down with IllegalPlacement.
C9_Witness ==
    /\ ply.type = "Place"
    /\ ply.piece.kind = "Capstone"
    /\ Stack(board, <<ply.x, ply.y>>) # <<>>
    /\ p1.capstone_count = 0
    /\ result = "IllegalPlacement"

\* C10: a Slide whose drops sum to more than the board size, or whose source
\* cell is empty, is an IllegalSlide and returns no new State.
C10_SlideRefused ==
    [][(/\ ply'.type = "Slide"
        /\ \/ SumSeq(ply'.drops) > BoardSize(Self)
           \/ Stack(board, <<ply'.x, ply'.y>>) = <<>>)
          => /\ result' = "IllegalSlide"
             /\ Self' = Self]_vars

\* A Slide of four pieces from an occupied cell of the board of size 3 was
\* turned down with IllegalSlide.
C10_Witness ==
    /\ ply.type = "Slide"
    /\ SumSeq(ply.drops) > BoardSize(Self)
    /\ Stack(board, <<ply.x, ply.y>>) # <<>>
    /\ result = "IllegalSlide"

\* C11: every call that returns a new State returns one whose ply_count is
\* that of the State it was made on plus exactly 1, and a rejected call leaves
\* the count of the State the caller holds as it was.
C11_PlyCountPlusOne ==
    [][/\ result' = "Ok" => ply_count' = ply_count + 1
       /\ result' \in GameErrors => ply_count' = ply_count]_vars

\* ---- a Slide that leaves the board

\* The steps of the path of the Slide p that leave the board.
StepsOff(p) ==
    {k \in 1 .. PathLen(p) : PathCell(p, k) \notin BOARD(BoardSize(Self))}

OffBoard(p) == StepsOff(p) # {}

FirstOff(p) == CHOOSE k \in StepsOff(p) : \A j \in StepsOff(p) : k <= j

\* The k-th cell of the path takes what is carried onto it: it is empty or
\* topped by a flatstone, or topped by a standing stone with one capstone
\* carried.
Passes(p, k) ==
    \/ TopKind(board, PathCell(p, k)) \in {"Empty", "Flatstone"}
    \/ /\ TopKind(board, PathCell(p, k)) = "StandingStone"
       /\ SingleCapstone(p, k)

\* C15 as stated: a Slide whose path takes a step off the board is
\* OutOfBounds, whatever the source cell, the direction and the drops.
C15_AsStated ==
    [][(ply'.type = "Slide" /\ OffBoard(ply')) => result' = "OutOfBounds"]_vars

\* C15 (amended): a Slide whose path takes a step off the board returns no
\* new State.  It is OutOfBounds when the source cell holds the grabbed
\* pieces, the grab is within the board size and every cell before the edge
\* takes what is carried onto it; it is IllegalSlide when the source cell is
\* empty, the grab exceeds the board size, or a cell before the edge turns
\* the carried pieces down; with more grabbed than the source cell holds the
\* call ends in the panic of C1.
C15_OffBoard ==
    [][(ply'.type = "Slide" /\ OffBoard(ply')) =>
          LET source_stack == Stack(board, <<ply'.x, ply'.y>>)
              grab == SumSeq(ply'.drops)
          IN /\ result' # "Ok"
             /\ Self' = Self
             /\ result' =
                  IF source_stack = <<>> \/ grab > BoardSize(Self)
                  THEN "IllegalSlide"
                  ELSE IF grab > Len(source_stack) THEN "Panic"
                  ELSE IF \A k \in 1 .. FirstOff(ply') - 1 : Passes(ply', k)
                  THEN "OutOfBounds"
                  ELSE "IllegalSlide"]_vars

\* A Slide of two steps dropped a piece on the first cell, left the board
\* with the second step and was turned down with OutOfBounds.
C15_Witness ==
    /\ ply.type = "Slide"
    /\ OffBoard(ply)
    /\ FirstOff(ply) = 2
    /\ ply.drops[1] > 0
    /\ Stack(board, PathCell(ply, 1)) # <<>>
    /\ result = "OutOfBounds"

\* ---- reserves

\* The four reserve counts of a State.
Reserves(s) ==
    [White |-> [flatstone_count |-> s.p1.flatstone_count,
                capstone_count |-> s.p1.capstone_count],
     Black |-> [flatstone_count |-> s.p2.flatstone_count,
                capstone_count |-> s.p2.capstone_count]]

\* The reserve a piece is taken from.
ReserveKind(piece) ==
    IF piece.kind = "Capstone" THEN "capstone_count" ELSE "flatstone_count"

\* C16: a Slide that returns a new State leaves the four reserve counts as
\* they were; a Place that returns a new State takes exactly 1 from the
\* reserve of the color and kind of the placed piece (a standing stone from
\* the flatstones) and leaves the other three; no count ever goes up.
C16_ReservesByPlacement ==
    [][/\ (result' = "Ok" /\ ply'.type = "Slide") =>
            Reserves(Self') = Reserves(Self)
       /\ (result' = "Ok" /\ ply'.type = "Place") =>
            Reserves(Self') =
                [Reserves(Self) EXCEPT
                    ![ply'.piece.color][ReserveKind(ply'.piece)] = @ - 1]
       /\ \A color \in Color, kind \in {"flatstone_count", "capstone_count"} :
            Reserves(Self')[color][kind] <= Reserves(Self)[color][kind]]_vars

\* A standing stone was placed with a capstone still in the reserve: the
\* flatstones of the color are one fewer and the capstone is still there.
C16_Witness ==
    /\ result = "Ok"
    /\ ply.type = "Place"
    /\ ply.piece = StandingStone(Black)
    /\ p2.flatstone_count = source.p2.flatstone_count - 1
    /\ p2.capstone_count = 1
    /\ source.p2.capstone_count = 1

\* ---- stacks before and after a Slide

\* The pieces dropped before the k-th cell of the path.
DroppedBefore(p, k) == SumSeq(SubSeq(p.drops, 1, k - 1))

\* The pieces the Slide p picks up, bottom to top.
PickedUp(p) ==
    LET source_stack == Stack(board, <<p.x, p.y>>)
    IN SubSeq(source_stack, Len(source_stack) - SumSeq(p.drops) + 1,
              Len(source_stack))

\* The first and the last cell of the path that pieces are dropped on.
DropCells(p) == {k \in 1 .. Len(p.drops) : p.drops[k] > 0}

FirstDrop(p) == CHOOSE k \in DropCells(p) : \A j \in DropCells(p) : k <= j

LastDrop(p) == CHOOSE k \in DropCells(p) : \A j \in DropCells(p) : k >= j

\* C17: after a Slide that returns a new State, the pieces below the grabbed
\* ones are the source stack; each cell of the path holds what it held (its
\* top flattened or not) and above that its share of the picked-up pieces,
\* and the shares, cell by cell along the path and bottom to top, are the
\* picked-up pieces in the order they had bottom to top in the source stack.
C17_StackingOrder ==
    [][(result' = "Ok" /\ ply'.type = "Slide") =>
          LET p == ply'
              source_stack == Stack(board, <<p.x, p.y>>)
          IN /\ Stack(board', <<p.x, p.y>>)
                    = SubSeq(source_stack, 1, Len(source_stack) - SumSeq(p.drops))
             /\ \A k \in 1 .. Len(p.drops) :
                   LET old == Stack(board, PathCell(p, k))
                       new == Stack(board', PathCell(p, k))
                   IN /\ Len(new) = Len(old) + p.drops[k]
                      /\ \A i \in 1 .. Len(old) - 1 : new[i] = old[i]
                      /\ old # <<>> => new[Len(old)].color = Last(old).color
                      /\ SubSeq(new, Len(old) + 1, Len(new))
                            = SubSeq(PickedUp(p), DroppedBefore(p, k) + 1,
                                     DroppedBefore(p, k) + p.drops[k])
             /\ SumSeq(p.drops) > 0 =>
                   /\ Stack(board', PathCell(p, FirstDrop(p)))
                            [Len(Stack(board, PathCell(p, FirstDrop(p)))) + 1]
                         = PickedUp(p)[1]
                   /\ Last(Stack(board', PathCell(p, LastDrop(p))))
                         = Last(source_stack)]_vars

\* A flatstone with a capstone on it was slid over two cells: the flatstone
\* lies on the first and the capstone on the second.
C17_Witness ==
    /\ result = "Ok"
    /\ ply.type = "Slide"
    /\ ply.drops = <<1, 1>>
    /\ Len(Stack(source.board, <<ply.x, ply.y>>)) = 2
    /\ Last(Stack(source.board, <<ply.x, ply.y>>)).kind = "Capstone"
    /\ Last(Stack(board, PathCell(ply, 1))) = Stack(source.board, <<ply.x, ply.y>>)[1]
    /\ Last(Stack(board, PathCell(ply, 2))) = Stack(source.board, <<ply.x, ply.y>>)[2]
    /\ Stack(board, <<ply.x, ply.y>>) = <<>>

\* C18: every piece that is not the top of its stack is a flatstone:
\* standing stones and capstones are the top piece of a stack only.
C18_OnlyTopsBlock ==
    \A c \in BOARD(BoardSize(Self)) :
        \A i \in 1 .. Len(Stack(board, c)) - 1 : Stack(board, c)[i].kind = "Flatstone"

\* A Slide put pieces on a cell that held some: a stack of two or more with
\* a capstone or a standing stone on top.
C18_Witness ==
    /\ result = "Ok"
    /\ ply.type = "Slide"
    /\ \E k \in 1 .. Len(ply.drops) :
          /\ PathCell(ply, k) \in BOARD(BoardSize(Self))
          /\ Stack(source.board, PathCell(ply, k)) # <<>>
          /\ Len(Stack(board, PathCell(ply, k))) > Len(Stack(source.board, PathCell(ply, k)))
          /\ TopKind(board, PathCell(ply, k)) \in {"StandingStone", "Capstone"}

\* C19: after a Slide that returns a new State, every standing stone that was
\* not picked up is a standing stone still, unless the carried capstone lies
\* directly on top of it, in which case it is a flatstone of its color.
C19_FlattenedUnderCapstone ==
    [][(result' = "Ok" /\ ply'.type = "Slide") =>
          \A c \in BOARD(BoardSize(Self)) :
              \A i \in 1 .. Len(Stack(board, c)) :
                  (/\ Stack(board, c)[i].kind = "StandingStone"
                   /\ i <= Len(Stack(board', c))) =>
                      \/ Stack(board', c)[i] = Stack(board, c)[i]
                      \/ /\ Stack(board', c)[i] = Flatstone(Stack(board, c)[i].color)
                         /\ Len(Stack(board', c)) > i
                         /\ Stack(board', c)[i + 1].kind = "Capstone"]_vars

\* ---- the parts of a token, read off its characters

IsPly(p) == p.type \in {"Place", "Slide"}

DirectionChars == {Chr("+"), Chr(">"), Chr("-"), Chr("<")}

\* The token from its k-th character on.
From(chars, k) == SubSeq(chars, k, Len(chars))

\* digit* : every character is a digit.
Digits(chars) == \A k \in 1 .. Len(chars) : chars[k] \in 48 .. 57

\* letter digit [direction digit*] : the coordinate and what may follow it
\* (which letters and digits make a coordinate is the matter of C20).
Coordinate(chars) ==
    /\ Len(chars) >= 2
    /\ is_lowercase_letter(chars[1])
    /\ chars[2] \in 48 .. 57
    /\ Len(chars) >= 3 => (chars[3] \in DirectionChars /\ Digits(From(chars, 4)))

\* The grammar of the notation: an optional S or C, an optional digit 1 to 9,
\* the coordinate, an optional direction symbol and drop digits after it.
Grammar(chars) ==
    \E k \in 1 .. 3 :
        /\ Coordinate(From(chars, k))
        /\ k >= 2 => chars[k - 1] \in {Chr("S"), Chr("C")} \cup (49 .. 57)
        /\ k = 3 => (chars[1] \in {Chr("S"), Chr("C")} /\ chars[2] \in 49 .. 57)

\* C12: from_ptn hands back a Ply only for a token of the grammar: one that
\* starts with a letter other than S or C, or has a grab digit that is not 1
\* to 9, or holds a character that does not belong, yields no Ply.
C12_OnlyGrammar == IsPly(parsed) => Grammar(ptn)

\* Where the direction symbol of a token stands (0: the token has none).
DirectionAt(chars) ==
    IF \E k \in 1 .. Len(chars) : chars[k] \in DirectionChars
    THEN CHOOSE k \in 1 .. Len(chars) :
            /\ chars[k] \in DirectionChars
            /\ \A j \in 1 .. k - 1 : chars[j] \notin DirectionChars
    ELSE 0

\* The characters after the direction symbol, and the numbers they stand for.
Trailing(chars) == From(chars, DirectionAt(chars) + 1)

Values(digits) == [k \in 1 .. Len(digits) |-> digits[k] - 48]

\* The leading grab digit (NoGrab: the token starts with no digit).
Leading(chars) ==
    IF chars # <<>> /\ chars[1] \in 48 .. 57 THEN chars[1] - 48 ELSE NoGrab

\* [digit] letter digit direction digit* : the tokens of slides.
SlideToken(chars) ==
    LET k == IF Leading(chars) = NoGrab THEN 1 ELSE 2
    IN /\ Coordinate(From(chars, k))
       /\ DirectionAt(chars) = k + 2

\* C13: a Slide handed back for a token with no digits after the direction
\* symbol has the one drop g, the leading grab digit, or 1 without one; for a
\* token with digits after the direction symbol it has exactly those digits
\* as drops, one entry each in order, and such a token is turned down unless
\* it has a leading grab digit equal to their sum.
C13_SlideDrops ==
    /\ parsed.type = "Slide" =>
          /\ DirectionAt(ptn) > 0
          /\ parsed.drops =
                IF Trailing(ptn) = <<>>
                THEN (IF Leading(ptn) = NoGrab THEN <<1>> ELSE <<Leading(ptn)>>)
                ELSE Values(Trailing(ptn))
    /\ (SlideToken(ptn) /\ parsed \notin {Unparsed, PanicPly}) =>
          (parsed.type = "Slide" <=>
              \/ Trailing(ptn) = <<>>
              \/ /\ Leading(ptn) # NoGrab
                 /\ Leading(ptn) = SumSeq(Values(Trailing(ptn))))

\* 2a1+11 was parsed to the Slide of north from a1 with the drops 1, 1.
C13_Witness ==
    /\ ptn = <<Chr("2"), Chr("a"), Chr("1"), Chr("+"), Chr("1"), Chr("1")>>
    /\ parsed = SlidePly(0, 0, North, <<1, 1>>)

\* The notations of the plies tried, by the color of the mover.
Written == [color \in Color |-> {Notation(p) : p \in ValidPlies(color)}]

\* C14: every Place of a piece of the mover and every Slide with drops that
\* sum to 9 at most has a notation that from_ptn, given the color of the
\* mover, parses back to that Ply: the same variant, coordinates, piece or
\* direction, and drops.
C14_RoundTrip ==
    (parsed # Unparsed /\ ptn \in Written[mover]) =>
        \A p \in ValidPlies(mover) : ptn = Notation(p) => parsed = p

\* The notation 9h8-45 of the Slide of south from h8 with the drops 4, 5 was
\* parsed back to that Slide.
C14_Witness ==
    /\ ptn = Notation(SlidePly(7, 7, South, <<4, 5>>))
    /\ ptn = <<Chr("9"), Chr("h"), 56, Chr("-"), 52, 53>>
    /\ parsed = SlidePly(7, 7, South, <<4, 5>>)

\* Where the column letter of a token stands (0: the token has none).
ColumnAt(chars) ==
    IF \E k \in 1 .. Len(chars) : is_lowercase_letter(chars[k])
    THEN CHOOSE k \in 1 .. Len(chars) :
            /\ is_lowercase_letter(chars[k])
            /\ \A j \in 1 .. k - 1 : ~is_lowercase_letter(chars[j])
    ELSE 0

\* C20: every Ply handed back has x = letter - 'a' for a column letter a to
\* z and y = digit - '1' for a row digit 1 to 9, so that y is in 0 .. 8; a
\* token with the row digit 0, or with a column character that is no ASCII
\* lowercase letter, yields no Ply; no call ends in an arithmetic fault.
C20_Coordinates ==
    /\ parsed # PanicPly
    /\ IsPly(parsed) =>
          LET k == ColumnAt(ptn)
          IN /\ ptn[k] \in 97 .. 122
             /\ parsed.x = ptn[k] - 97
             /\ ptn[k + 1] \in 49 .. 57
             /\ parsed.y = ptn[k + 1] - 49
             /\ parsed.y \in 0 .. 8

\* Whether a NewGame or a Position command has been received.
Established ==
    \E i \in DOMAIN received : received[i].type \in {"NewGame", "Position"}

\* C21: once a NewGame or Position command has established a position,
\* every later Go command is served: a MoveRequest (carrying the position
\* the loop holds, when it holds one) is sent to the engine and the loop
\* does not fault, whatever commands came in between, two Go commands in a
\* row included.
C21_GoServed ==
    [][(/\ tei = "Running"
        /\ Established
        /\ received' = Append(received, Go))
       => /\ tei' # "Panic"
          /\ Len(to_engine') = Len(to_engine) + 1
          /\ Last(to_engine').type = "MoveRequest"
          /\ position.some => Last(to_engine').state = position.state]_vars

\* Whether from_ptn gives a Ply for the token (the color plays no part).
Parses(chars) == IsPly(from_ptn(chars, White, FALSE))

\* The color the claim gives the k-th ply that parsed.
PlyColor(k) ==
    IF k = 1 THEN Black
    ELSE IF k = 2 THEN White
    ELSE IF k % 2 = 1 THEN White ELSE Black

\* The size of the most recent NewGame among the commands, 5 without one.
RecentSize(commands) ==
    LET games == {i \in DOMAIN commands : commands[i].type = "NewGame"}
    IN IF games = {} THEN 5
       ELSE commands[CHOOSE i \in games : \A j \in games : j <= i].size

\* C22: on a Position command the plies are the tokens that parse, in
\* order, the k-th of them read with Black for k = 1, White for k = 2 and
\* from k = 3 on White for odd k and Black for even k; the tokens that do
\* not parse leave no trace; and the position the loop then holds has the
\* board size of the most recent NewGame (5 without one) and one ply
\* executed per parsed token.
C22_PositionCommand ==
    [][(/\ tei = "Running"
        /\ Len(received') = Len(received) + 1
        /\ Last(received').type = "Position")
       => LET good == SelectSeq(Last(received').line, Parses)
          IN /\ Len(plies') = Len(good)
             /\ \A k \in 1 .. Len(good) :
                    \E overflow_checks \in BOOLEAN :
                        plies'[k] = from_ptn(good[k], PlyColor(k), overflow_checks)
             /\ tei' = "Running" =>
                    /\ position'.some
                    /\ BoardSize(position'.state) = RecentSize(received)
                    /\ position'.state.ply_count = Len(good)]_vars

\* A Position command after a NewGame of another size than 5, with four
\* plies and a skipped token between them, has given a position.
C22_Witness ==
    /\ received # <<>>
    /\ Last(received).type = "Position"
    /\ tei = "Running"
    /\ RecentSize(received) = 3
    /\ Len(plies) = 4
    /\ \A k \in 1 .. 4 : plies[k].type = "Place" /\ plies[k].piece.color = PlyColor(k)
    /\ ~Parses(Last(received).line[3])

====
